---- MODULE Spec2Model ----
(***************************************************************************)
(* The inventory ledger of packages/inventory: InventoryService (the       *)
(* Coordinator) over the item, level and reservation stores.               *)
(*                                                                         *)
(* Spec       : levels and reservations of one item, from empty stores;    *)
(*              each Coordinator call runs whole in its own transaction.   *)
(* SpecEnsure : one createReservationItems batch over two items and two    *)
(*              locations, from each level table createInventoryLevels     *)
(*              can fill.                                                  *)
(* SpecStock  : items, levels, adjustInventory and the quantity queries,   *)
(*              from empty stores, each call whole.                        *)
(* SpecLedger : levels, adjustments and reservations of one item with the  *)
(*              quantity queries and confirmInventory.                     *)
(* SpecCascade: items, levels and reservations with the deletes of items,  *)
(*              of levels and by location.                                 *)
(* SpecRelease: reservations of two line items and their deletes.          *)
(* SpecUpdate : the bulk update of levels and the delete of items, with    *)
(*              store calls that fail.                                     *)
(* SpecSingle : the single forms next to their batch forms, on one item.   *)
(* SpecFrame  : one updateInventoryLevels batch over two items and two     *)
(*              locations, from each level table createInventoryLevels     *)
(*              can fill.                                                  *)
(* SpecAdjust : concurrent adjustInventory calls, interleaved at their     *)
(*              store calls (the awaits of the handler).                   *)
(* SpecReserve: concurrent confirmInventory-then-createReservationItem     *)
(*              sequences, interleaved between the two calls.              *)
(***************************************************************************)
EXTENDS Integers, Sequences, FiniteSets, TLC

\* ------------------------------------------------------------------ bounds
MaxBatch == 2          \* longest batch handed to a batch operation
MaxReservations == 2   \* reservation rows the store is let to hold
MaxStock == 2          \* adjustments keep |stocked_quantity| within this

ItemIds == <<"I1", "I2">>
Items == {ItemIds[k] : k \in 1..Len(ItemIds)}
Locations == {"L1", "L2"}
LineItems == {"LI1", "LI2"}
Procs == {"p1", "p2"}
Deltas == {-1, 1}
Quantities == {1, 2}

VARIABLES
  items,          \* item store: the ids of the item rows
  levels,         \* level store: the set of level rows
  reservations,   \* reservation store: the set of reservation rows
  last,           \* the last completed Coordinator call: input, outcome, store calls
  pc,             \* concurrent specifications: each request's position
  local           \* concurrent specifications: each request's local values

vars == <<items, levels, reservations, last, pc, local>>

\* ----------------------------------------------------------------- helpers
Pair(i, l) == [inventory_item_id |-> i, location_id |-> l]
PairOf(r) == Pair(r.inventory_item_id, r.location_id)
Pairs == {Pair(i, l) : i \in Items, l \in Locations}

Range(s) == {s[k] : k \in 1..Len(s)}

RECURSIVE SumStocked(_)
SumStocked(S) ==
  IF S = {} THEN 0
  ELSE LET x == CHOOSE y \in S : TRUE IN x.stocked_quantity + SumStocked(S \ {x})

RECURSIVE SumReserved(_)
SumReserved(S) ==
  IF S = {} THEN 0
  ELSE LET x == CHOOSE y \in S : TRUE IN x.reserved_quantity + SumReserved(S \ {x})

\* The sequences that enumerate the set S, each element once.
RECURSIVE Orderings(_)
Orderings(S) ==
  IF S = {} THEN {<<>>}
  ELSE UNION {{<<x>> \o t : t \in Orderings(S \ {x})} : x \in S}

\* The id of a new row of pair (i, l): ids are opaque and never shared by
\* two rows of a table; used holds the ids taken.
FreshId(used, i, l) ==
  <<i, l, CHOOSE n \in 1..(Cardinality(used) + 1) : <<i, l, n>> \notin used>>

\* The ids of the new rows of a batch, one after the other.
RECURSIVE FreshIds(_, _)
FreshIds(used, input) ==
  IF input = <<>> THEN <<>>
  ELSE LET id == FreshId(used, Head(input).inventory_item_id, Head(input).location_id)
       IN <<id>> \o FreshIds(used \cup {id}, Tail(input))

Batches(D) == UNION {[1..n -> D] : n \in 1..MaxBatch}

NoCall == [op |-> "none", input |-> <<>>, status |-> "ok", ret |-> <<>>,
           missing |-> <<>>, ensured |-> <<>>, calls |-> <<>>]

Call(op, input, status, ret, missing, ensured, calls) ==
  [op |-> op, input |-> input, status |-> status, ret |-> ret,
   missing |-> missing, ensured |-> ensured, calls |-> calls]

\* ------------------------------------------------------------ level store
\* list({inventory_item_id, location_id}): rows matching both id sets.
InventoryLevelService_list(lv, itemIds, locationIds) ==
  {r \in lv : r.inventory_item_id \in itemIds /\ r.location_id \in locationIds}

\* create on a table with no unique index: every spec becomes a row.
InventoryLevelService_create_NoIndex(lv, input) ==
  LET ids == FreshIds({r.id : r \in lv}, input)
      rows == [k \in DOMAIN input |->
                 [id |-> ids[k],
                  inventory_item_id |-> input[k].inventory_item_id,
                  location_id |-> input[k].location_id,
                  stocked_quantity |-> input[k].stocked_quantity,
                  reserved_quantity |-> 0]]
  IN [status |-> "ok", rows |-> rows, levels |-> lv \cup Range(rows)]

\* create(specs): one new row per spec; the table is unique on
\* (inventory_item_id, location_id), so a batch that repeats a key, or names
\* the key of an existing row, is rejected whole.
InventoryLevelService_create(lv, input) ==
  LET dup == \/ \E k \in DOMAIN input : \E r \in lv : PairOf(r) = PairOf(input[k])
             \/ \E j, k \in DOMAIN input : j # k /\ PairOf(input[j]) = PairOf(input[k])
      ids == FreshIds({r.id : r \in lv}, input)
      rows == [k \in DOMAIN input |->
                 [id |-> ids[k],
                  inventory_item_id |-> input[k].inventory_item_id,
                  location_id |-> input[k].location_id,
                  stocked_quantity |-> input[k].stocked_quantity,
                  reserved_quantity |-> 0]]
  IN IF dup THEN [status |-> "DuplicateKey", rows |-> <<>>, levels |-> lv]
     ELSE [status |-> "ok", rows |-> rows, levels |-> lv \cup Range(rows)]

\* update(id, {stocked_quantity}): NotFound when no row has the id.
InventoryLevelService_update(lv, id, stocked) ==
  IF ~\E r \in lv : r.id = id
  THEN [status |-> "NotFound", levels |-> lv]
  ELSE [status |-> "ok",
        levels |-> {IF r.id = id THEN [r EXCEPT !.stocked_quantity = stocked] ELSE r
                    : r \in lv}]

\* The level rows with reserved_quantity moved by delta on the rows of pair p
\* (no row of that pair: nothing to move).
adjustReservedQuantity(lv, p, delta) ==
  {IF PairOf(r) = p THEN [r EXCEPT !.reserved_quantity = @ + delta] ELSE r : r \in lv}

getStockedQuantity(lv, i, locationIds) ==
  SumStocked(InventoryLevelService_list(lv, {i}, locationIds))

getReservedQuantity(lv, i, locationIds) ==
  SumReserved(InventoryLevelService_list(lv, {i}, locationIds))

getAvailableQuantity(lv, i, locationIds) ==
  getStockedQuantity(lv, i, locationIds) - getReservedQuantity(lv, i, locationIds)

\* deleteByInventoryItemId(ids), deleteByLocationId(ids), delete(id): the
\* rows that match are removed; none matching is no error.
InventoryLevelService_deleteByInventoryItemId(lv, inventoryItemIds) ==
  {r \in lv : r.inventory_item_id \notin inventoryItemIds}

InventoryLevelService_deleteByLocationId(lv, locationIds) ==
  {r \in lv : r.location_id \notin locationIds}

InventoryLevelService_delete(lv, id) ==
  {r \in lv : r.id # id}

\* ------------------------------------------------------------- item store
\* create(specs): one new row, with an id of the store's choosing, per spec.
RECURSIVE InventoryItemService_create(_, _)
InventoryItemService_create(it, n) ==
  IF n = 0 THEN it
  ELSE LET k == CHOOSE j \in 1..Len(ItemIds) :
                  /\ ItemIds[j] \notin it
                  /\ \A h \in 1..(j - 1) : ItemIds[h] \in it
       IN InventoryItemService_create(it \cup {ItemIds[k]}, n - 1)

\* retrieve(id): the row, or NotFound.
InventoryItemService_retrieve(it, id) ==
  IF id \in it THEN "ok" ELSE "NotFound"

\* delete(ids): the rows are removed; the store starts no cascade.
InventoryItemService_delete(it, inventoryItemIds) ==
  it \ inventoryItemIds

\* ------------------------------------------------------ reservation store
RECURSIVE adjustReservedAll(_, _)
adjustReservedAll(lv, input) ==
  IF input = <<>> THEN lv
  ELSE adjustReservedAll(
         adjustReservedQuantity(lv, PairOf(Head(input)), Head(input).quantity),
         Tail(input))

\* create(specs): one new row per spec; the reserved_quantity of each spec's
\* level moves with it.
ReservationItemService_create(lv, rs, input) ==
  LET ids == FreshIds({r.id : r \in rs}, input)
      rows == [k \in DOMAIN input |->
                 [id |-> ids[k],
                  inventory_item_id |-> input[k].inventory_item_id,
                  location_id |-> input[k].location_id,
                  quantity |-> input[k].quantity,
                  line_item_id |-> input[k].line_item_id]]
  IN [rows |-> rows,
      reservations |-> rs \cup Range(rows),
      levels |-> adjustReservedAll(lv, input)]

\* update(id, fields): NotFound when no row has the id; otherwise the fields
\* given replace the row's, and reserved_quantity leaves the level of the
\* row's old pair and joins the level of its new one.
ReservationItemService_update(lv, rs, id, input) ==
  IF ~\E r \in rs : r.id = id
  THEN [status |-> "NotFound", row |-> <<>>, reservations |-> rs, levels |-> lv]
  ELSE LET old == CHOOSE r \in rs : r.id = id
           new == [old EXCEPT
                     !.location_id = IF "location_id" \in DOMAIN input
                                     THEN input.location_id ELSE @,
                     !.quantity = IF "quantity" \in DOMAIN input
                                  THEN input.quantity ELSE @]
       IN [status |-> "ok", row |-> new,
           reservations |-> (rs \ {old}) \cup {new},
           levels |-> adjustReservedQuantity(
                        adjustReservedQuantity(lv, PairOf(old), -old.quantity),
                        PairOf(new), new.quantity)]

\* The level rows after the rows of removed left the reservation table: each
\* takes its quantity out of the reserved_quantity of its level.
RECURSIVE releaseReserved(_, _)
releaseReserved(lv, removed) ==
  IF removed = {} THEN lv
  ELSE LET r == CHOOSE x \in removed : TRUE
       IN releaseReserved(adjustReservedQuantity(lv, PairOf(r), -r.quantity),
                          removed \ {r})

\* delete(ids), deleteByLocationId(ids), deleteByLineItem(ids): the rows that
\* match are removed, with their reserved quantity; none matching is no
\* error.
ReservationItemService_delete(lv, rs, ids) ==
  LET removed == {r \in rs : r.id \in ids}
  IN [reservations |-> rs \ removed, levels |-> releaseReserved(lv, removed)]

ReservationItemService_deleteByLocationId(lv, rs, locationIds) ==
  LET removed == {r \in rs : r.location_id \in locationIds}
  IN [reservations |-> rs \ removed, levels |-> releaseReserved(lv, removed)]

ReservationItemService_deleteByLineItem(lv, rs, lineItemIds) ==
  LET removed == {r \in rs : r.line_item_id \in lineItemIds}
  IN [reservations |-> rs \ removed, levels |-> releaseReserved(lv, removed)]

\* ------------------------------------------------------------ Coordinator
\* ensureInventoryLevels, lines 209-217: the fetched rows indexed
\* item -> location -> level, a later row replacing an earlier one of its key.
inventoryLevelMap(inventoryLevels) ==
  [i \in {inventoryLevels[k].inventory_item_id : k \in DOMAIN inventoryLevels} |->
     [l \in {inventoryLevels[k].location_id :
               k \in {j \in DOMAIN inventoryLevels :
                        inventoryLevels[j].inventory_item_id = i}} |->
        inventoryLevels[
          CHOOSE k \in DOMAIN inventoryLevels :
            /\ PairOf(inventoryLevels[k]) = Pair(i, l)
            /\ \A j \in DOMAIN inventoryLevels :
                 PairOf(inventoryLevels[j]) = Pair(i, l) => j <= k]]]

\* map.get(i)?.get(l) is defined
MapHas(map, i, l) == i \in DOMAIN map /\ l \in DOMAIN map[i]

\* missingLevels with the item and the location looked up apart: an input
\* counts as resolved when some fetched row has its item and some its location.
missingLevels_Flat(data, map) ==
  SelectSeq(data, LAMBDA d :
    ~(/\ d.inventory_item_id \in DOMAIN map
      /\ \E i \in DOMAIN map : d.location_id \in DOMAIN map[i]))

\* ensureInventoryLevels, lines 219-221: the inputs that resolve to no row.
missingLevels(data, map) ==
  SelectSeq(data, LAMBDA d : ~MapHas(map, d.inventory_item_id, d.location_id))

\* ensureInventoryLevels, lines 232-234: the rows returned on success.
ensuredLevels(data, inventoryLevels, map) ==
  [k \in DOMAIN inventoryLevels |->
     map[inventoryLevels[k].inventory_item_id][inventoryLevels[k].location_id]]

\* ensureInventoryLevels(data) on the rows its one list query fetched.
ensureInventoryLevels(data, inventoryLevels) ==
  LET map == inventoryLevelMap(inventoryLevels)
      missing == missingLevels(data, map)
  IN IF Len(missing) > 0
     THEN [status |-> "NotFound",
           missing |-> [k \in DOMAIN missing |-> PairOf(missing[k])],
           rows |-> <<>>]
     ELSE [status |-> "ok", missing |-> <<>>,
           rows |-> ensuredLevels(data, inventoryLevels, map)]

\* The rows the list query of ensureInventoryLevels(data) may fetch: those
\* matching the requested item ids and the requested location ids, in an
\* order of the store's choosing.
ensureQuery(lv, data) ==
  Orderings(InventoryLevelService_list(lv,
              {data[k].inventory_item_id : k \in DOMAIN data},
              {data[k].location_id : k \in DOMAIN data}))

\* What a Coordinator call comes to: its outcome, the store calls it made, and
\* the three tables as its transaction leaves them (a failed call's
\* transaction is rolled back: the tables as they were).
Outcome(status, ret, missing, ensured, calls, it, lv, rs) ==
  [status |-> status, ret |-> ret, missing |-> missing, ensured |-> ensured,
   calls |-> calls, items |-> it, levels |-> lv, reservations |-> rs]

\* createReservationItems refusing a batch that asks, at some pair, for more
\* than the level there has available.
createReservationItems_Checked(it, lv, rs, input, inventoryLevels) ==
  LET e == ensureInventoryLevels(input, inventoryLevels)
      c == ReservationItemService_create(lv, rs, input)
  IN IF e.status # "ok"
     THEN Outcome(e.status, <<>>, e.missing, <<>>,
                  <<"inventoryLevelService.list">>, it, lv, rs)
     ELSE IF \E v \in c.levels : v.reserved_quantity > v.stocked_quantity
     THEN Outcome("NotAllowed", <<>>, <<>>, <<>>,
                  <<"inventoryLevelService.list">>, it, lv, rs)
     ELSE Outcome("ok", c.rows, <<>>, e.rows,
                  <<"inventoryLevelService.list", "reservationItemService.create">>,
                  it, c.levels, c.reservations)

\* createReservationItems writing the rows of the stocked inputs before it
\* reports the unstocked ones.
createReservationItems_PartialWrite(it, lv, rs, input, inventoryLevels) ==
  LET e == ensureInventoryLevels(input, inventoryLevels)
      stocked == SelectSeq(input, LAMBDA d : \E r \in lv : PairOf(r) = PairOf(d))
      c == ReservationItemService_create(lv, rs, stocked)
  IN Outcome(e.status, c.rows, e.missing, e.rows,
             <<"inventoryLevelService.list", "reservationItemService.create">>,
             it, c.levels, c.reservations)

\* createReservationItems(input); inventoryLevels is what the list query of
\* its ensureInventoryLevels fetched.
createReservationItems(it, lv, rs, input, inventoryLevels) ==
  LET e == ensureInventoryLevels(input, inventoryLevels)
      c == ReservationItemService_create(lv, rs, input)
  IN IF e.status # "ok"
     THEN Outcome(e.status, <<>>, e.missing, <<>>,
                  <<"inventoryLevelService.list">>, it, lv, rs)
     ELSE Outcome("ok", c.rows, <<>>, e.rows,
                  <<"inventoryLevelService.list", "reservationItemService.create">>,
                  it, c.levels, c.reservations)

\* createReservationItem(input) handing its input to the store without the
\* batch form's validation.
createReservationItem_Direct(it, lv, rs, input, inventoryLevels) ==
  LET c == ReservationItemService_create(lv, rs, <<input>>)
  IN Outcome("ok", c.rows[1], <<>>, <<>>, <<"reservationItemService.create">>,
             it, c.levels, c.reservations)

\* createReservationItem(input): the batch form on [input], its one result.
createReservationItem(it, lv, rs, input, inventoryLevels) ==
  LET r == createReservationItems(it, lv, rs, <<input>>, inventoryLevels)
  IN IF r.status = "ok" THEN [r EXCEPT !.ret = r.ret[1]] ELSE r

createInventoryItems(it, lv, rs, n) ==
  LET created == InventoryItemService_create(it, n)
  IN Outcome("ok", created \ it, <<>>, <<>>, <<"inventoryItemService.create">>,
             created, lv, rs)

createInventoryLevels(it, lv, rs, input) ==
  LET c == InventoryLevelService_create(lv, input)
  IN Outcome(c.status, c.rows, <<>>, <<>>, <<"inventoryLevelService.create">>,
             it, c.levels, rs)

\* createInventoryLevel(input): the batch form on [input], its one result.
createInventoryLevel(it, lv, rs, input) ==
  LET r == createInventoryLevels(it, lv, rs, <<input>>)
  IN IF r.status = "ok" THEN [r EXCEPT !.ret = r.ret[1]] ELSE r

updateReservationItem(it, lv, rs, reservationItemId, input) ==
  LET u == ReservationItemService_update(lv, rs, reservationItemId, input)
  IN Outcome(u.status, u.row, <<>>, <<>>, <<"reservationItemService.update">>,
             it, u.levels, u.reservations)

\* A call that throws after store calls were issued: its transaction is
\* rolled back, so the tables are the ones it started from (it, lv, rs), not
\* the ones its writes had made (wit, wlv, wrs).
Abort_NoRollback(status, calls, it, lv, rs, wit, wlv, wrs) ==
  Outcome(status, <<>>, <<>>, <<>>, calls, wit, wlv, wrs)

Abort(status, calls, it, lv, rs, wit, wlv, wrs) ==
  Outcome(status, <<>>, <<>>, <<>>, calls, it, lv, rs)

\* deleteInventoryItem(ids) deleting the item rows only.
deleteInventoryItem_NoCascade(it, lv, rs, inventoryItemId, fault) ==
  Outcome("ok", <<>>, <<>>, <<>>, <<"inventoryItemService.delete">>,
          InventoryItemService_delete(it, inventoryItemId), lv, rs)

\* deleteInventoryItem(ids): the levels of the items, then the item rows.
\* fault is the store call that fails (0: none does).
deleteInventoryItem(it, lv, rs, inventoryItemId, fault) ==
  LET wlv == InventoryLevelService_deleteByInventoryItemId(lv, inventoryItemId)
      wit == InventoryItemService_delete(it, inventoryItemId)
  IN IF fault = 1
     THEN Abort("StoreError", <<"inventoryLevelService.deleteByInventoryItemId">>,
                it, lv, rs, it, lv, rs)
     ELSE IF fault = 2
     THEN Abort("StoreError", <<"inventoryLevelService.deleteByInventoryItemId",
                                "inventoryItemService.delete">>,
                it, lv, rs, it, wlv, rs)
     ELSE Outcome("ok", <<>>, <<>>, <<>>,
                  <<"inventoryLevelService.deleteByInventoryItemId",
                    "inventoryItemService.delete">>, wit, wlv, rs)

\* deleteInventoryItemLevelByLocationId deleting, with the levels at the
\* locations, the other levels of their items.
deleteInventoryItemLevelByLocationId_WholeItem(it, lv, rs, locationId) ==
  LET hit == {r.inventory_item_id : r \in {x \in lv : x.location_id \in locationId}}
  IN Outcome("ok", <<>>, <<>>, <<>>, <<"inventoryLevelService.deleteByLocationId">>,
             it, InventoryLevelService_deleteByInventoryItemId(lv, hit), rs)

deleteInventoryItemLevelByLocationId(it, lv, rs, locationId) ==
  Outcome("ok", <<>>, <<>>, <<>>, <<"inventoryLevelService.deleteByLocationId">>,
          it, InventoryLevelService_deleteByLocationId(lv, locationId), rs)

deleteReservationItemByLocationId(it, lv, rs, locationId) ==
  LET d == ReservationItemService_deleteByLocationId(lv, rs, locationId)
  IN Outcome("ok", <<>>, <<>>, <<>>, <<"reservationItemService.deleteByLocationId">>,
             it, d.levels, d.reservations)

\* deleteInventoryLevel(i, l) deleting every level of the item.
deleteInventoryLevel_WholeItem(it, lv, rs, inventoryItemId, locationId, found) ==
  Outcome("ok", <<>>, <<>>, <<>>,
          <<"inventoryLevelService.list", "inventoryLevelService.delete">>,
          it, InventoryLevelService_deleteByInventoryItemId(lv, {inventoryItemId}),
          rs)

\* deleteInventoryLevel(i, l): found is what the list query with take: 1
\* returned, no row or one row of the pair.
deleteInventoryLevel(it, lv, rs, inventoryItemId, locationId, found) ==
  IF found = {}
  THEN Outcome("ok", <<>>, <<>>, <<>>, <<"inventoryLevelService.list">>,
               it, lv, rs)
  ELSE LET inventoryLevel == CHOOSE r \in found : TRUE
       IN Outcome("ok", <<>>, <<>>, <<>>,
                  <<"inventoryLevelService.list", "inventoryLevelService.delete">>,
                  it, InventoryLevelService_delete(lv, inventoryLevel.id), rs)

\* deleteReservationItemsByLineItem(ids) deleting the levels of the rows too.
deleteReservationItemsByLineItem_Cascade(it, lv, rs, lineItemId) ==
  LET removed == {r \in rs : r.line_item_id \in lineItemId}
  IN Outcome("ok", <<>>, <<>>, <<>>, <<"reservationItemService.deleteByLineItem">>,
             it, {v \in lv : \A r \in removed : PairOf(r) # PairOf(v)},
             rs \ removed)

deleteReservationItemsByLineItem(it, lv, rs, lineItemId) ==
  LET d == ReservationItemService_deleteByLineItem(lv, rs, lineItemId)
  IN Outcome("ok", <<>>, <<>>, <<>>, <<"reservationItemService.deleteByLineItem">>,
             it, d.levels, d.reservations)

deleteReservationItem(it, lv, rs, reservationItemId) ==
  LET d == ReservationItemService_delete(lv, rs, reservationItemId)
  IN Outcome("ok", <<>>, <<>>, <<>>, <<"reservationItemService.delete">>,
             it, d.levels, d.reservations)

\* updateInventoryLevels, lines 402-407: the validated rows indexed
\* item -> location -> id of the level.
levelMap(inventoryLevels) ==
  LET map == inventoryLevelMap(inventoryLevels)
  IN [i \in DOMAIN map |-> [l \in DOMAIN map[i] |-> map[i][l].id]]

\* The id update k is addressed to when the ids are taken by position from
\* the validated rows.
levelIdOf_ByPosition(inventoryLevels, update, k) ==
  inventoryLevels[IF k \in DOMAIN inventoryLevels THEN k ELSE 1].id

\* updateInventoryLevels, lines 411-413: the id update k is addressed to.
levelIdOf(inventoryLevels, update, k) ==
  levelMap(inventoryLevels)[update.inventory_item_id][update.location_id]

\* updateInventoryLevels, lines 409-423: the per-row updates from the k-th
\* on, each addressed to the id of its pair; the rows they return, in input
\* order. fault is the update that fails (0: none does).
RECURSIVE applyUpdates(_, _, _, _, _)
applyUpdates(lv, inventoryLevels, updates, k, fault) ==
  IF k > Len(updates) THEN [status |-> "ok", levels |-> lv, rows |-> <<>>]
  ELSE IF k = fault THEN [status |-> "StoreError", levels |-> lv, rows |-> <<>>]
  ELSE LET levelId == levelIdOf(inventoryLevels, updates[k], k)
           u == InventoryLevelService_update(lv, levelId,
                                             updates[k].stocked_quantity)
       IN IF u.status # "ok"
          THEN [status |-> u.status, levels |-> lv, rows |-> <<>>]
          ELSE LET rest == applyUpdates(u.levels, inventoryLevels, updates,
                                        k + 1, fault)
               IN [status |-> rest.status, levels |-> rest.levels,
                   rows |-> <<CHOOSE r \in u.levels : r.id = levelId>>
                              \o rest.rows]

\* updateInventoryLevels writing the quantity of its first update to every
\* row its validation fetched.
updateInventoryLevels_AllFetched(it, lv, rs, updates, inventoryLevels, fault) ==
  LET e == ensureInventoryLevels(updates, inventoryLevels)
      a == applyUpdates(lv, e.rows, updates, 1, fault)
      fetched == {inventoryLevels[k].id : k \in DOMAIN inventoryLevels}
      calls == <<"inventoryLevelService.list">>
                 \o [k \in DOMAIN updates |-> "inventoryLevelService.update"]
  IN IF e.status # "ok"
     THEN Outcome(e.status, <<>>, e.missing, <<>>,
                  <<"inventoryLevelService.list">>, it, lv, rs)
     ELSE IF a.status # "ok"
     THEN Abort(a.status, calls, it, lv, rs, it, a.levels, rs)
     ELSE Outcome("ok", a.rows, <<>>, e.rows, calls, it,
                  {IF r.id \in fetched
                   THEN [r EXCEPT !.stocked_quantity = updates[1].stocked_quantity]
                   ELSE r : r \in a.levels}, rs)

\* updateInventoryLevels(updates) on the rows its validation fetched: it
\* throws NotFound before any update when a pair has no level; otherwise all
\* its updates are issued (Promise.all) and it returns their results, or
\* throws with the first that fails.
updateInventoryLevels(it, lv, rs, updates, inventoryLevels, fault) ==
  LET e == ensureInventoryLevels(updates, inventoryLevels)
      a == applyUpdates(lv, e.rows, updates, 1, fault)
      calls == <<"inventoryLevelService.list">>
                 \o [k \in DOMAIN updates |-> "inventoryLevelService.update"]
  IN IF e.status # "ok"
     THEN Outcome(e.status, <<>>, e.missing, <<>>,
                  <<"inventoryLevelService.list">>, it, lv, rs)
     ELSE IF a.status # "ok"
     THEN Abort(a.status, calls, it, lv, rs, it, a.levels, rs)
     ELSE Outcome("ok", a.rows, <<>>, e.rows, calls, it, a.levels, rs)

\* createInventoryItem(input): the batch form on [input], its one result.
createInventoryItem(it, lv, rs) ==
  LET r == createInventoryItems(it, lv, rs, 1)
  IN [r EXCEPT !.ret = CHOOSE id \in r.ret : TRUE]

\* updateInventoryLevel(i, l, input), lines 440-451: the batch form on
\* [{i, l, ...input}], its one result.
updateInventoryLevel(it, lv, rs, inventoryItemId, locationId, input, inventoryLevels, fault) ==
  LET updates == <<[inventory_item_id |-> inventoryItemId,
                    location_id |-> locationId,
                    stocked_quantity |-> input.stocked_quantity]>>
      r == updateInventoryLevels(it, lv, rs, updates, inventoryLevels, fault)
  IN IF r.status = "ok" THEN [r EXCEPT !.ret = r.ret[1]] ELSE r

\* The quantity written with a floor of zero applied.
adjustedQuantity_Floored(inventoryLevel, adjustment) ==
  IF inventoryLevel.stocked_quantity + adjustment < 0
  THEN 0 ELSE inventoryLevel.stocked_quantity + adjustment

\* adjustInventory, line 535: the quantity written.
adjustedQuantity(inventoryLevel, adjustment) ==
  inventoryLevel.stocked_quantity + adjustment

\* adjustInventory, lines 520-530: the list query ({take: 1}) and the
\* not-found check; found is the set of rows the query may return first.
adjustInventoryRead(lv, inventoryItemId, locationId) ==
  InventoryLevelService_list(lv, {inventoryItemId}, {locationId})

\* adjustInventory, lines 532-540: the update of the row read.
adjustInventoryWrite(lv, inventoryLevel, adjustment) ==
  InventoryLevelService_update(lv, inventoryLevel.id,
                               adjustedQuantity(inventoryLevel, adjustment))

\* adjustInventory run alone; inventoryLevel is the row its query returned
\* (when it returned one).
adjustInventory(it, lv, rs, inventoryItemId, locationId, adjustment, inventoryLevel) ==
  IF adjustInventoryRead(lv, inventoryItemId, locationId) = {}
  THEN Outcome("NotFound", <<>>, <<>>, <<>>, <<"inventoryLevelService.list">>,
               it, lv, rs)
  ELSE LET u == adjustInventoryWrite(lv, inventoryLevel, adjustment)
       IN Outcome(u.status,
                  IF u.status = "ok"
                  THEN CHOOSE r \in u.levels : r.id = inventoryLevel.id
                  ELSE <<>>,
                  <<>>, <<>>,
                  <<"inventoryLevelService.list", "inventoryLevelService.update">>,
                  it, u.levels, rs)

\* retrieveAvailableQuantity without the return of 0 for no locations: the
\* aggregate is asked for every location list.
retrieveAvailableQuantity_NoFastPath(it, lv, rs, inventoryItemId, locationIds) ==
  IF InventoryItemService_retrieve(it, inventoryItemId) # "ok"
  THEN Outcome("NotFound", 0, <<>>, <<>>, <<"inventoryItemService.retrieve">>,
               it, lv, rs)
  ELSE Outcome("ok", getAvailableQuantity(lv, inventoryItemId, locationIds),
               <<>>, <<>>,
               <<"inventoryItemService.retrieve",
                 "inventoryLevelService.getAvailableQuantity">>, it, lv, rs)

\* retrieveAvailableQuantity returning 0 for no locations before it looks the
\* item up.
retrieveAvailableQuantity_ShortCircuitFirst(it, lv, rs, inventoryItemId, locationIds) ==
  IF locationIds = {}
  THEN Outcome("ok", 0, <<>>, <<>>, <<>>, it, lv, rs)
  ELSE IF InventoryItemService_retrieve(it, inventoryItemId) # "ok"
  THEN Outcome("NotFound", 0, <<>>, <<>>, <<"inventoryItemService.retrieve">>,
               it, lv, rs)
  ELSE Outcome("ok", getAvailableQuantity(lv, inventoryItemId, locationIds),
               <<>>, <<>>,
               <<"inventoryItemService.retrieve",
                 "inventoryLevelService.getAvailableQuantity">>, it, lv, rs)

\* retrieveAvailableQuantity asking the level store before it looks the item up.
retrieveAvailableQuantity_LevelFirst(it, lv, rs, inventoryItemId, locationIds) ==
  IF locationIds = {}
  THEN Outcome(InventoryItemService_retrieve(it, inventoryItemId), 0, <<>>, <<>>,
               <<"inventoryItemService.retrieve">>, it, lv, rs)
  ELSE Outcome(InventoryItemService_retrieve(it, inventoryItemId),
               IF inventoryItemId \in it
               THEN getAvailableQuantity(lv, inventoryItemId, locationIds) ELSE 0,
               <<>>, <<>>,
               <<"inventoryLevelService.getAvailableQuantity",
                 "inventoryItemService.retrieve">>, it, lv, rs)

\* The quantity queries: the item lookup (which throws for an unknown item),
\* the return of 0 for no locations, then the level store's aggregate.
retrieveAvailableQuantity(it, lv, rs, inventoryItemId, locationIds) ==
  IF InventoryItemService_retrieve(it, inventoryItemId) # "ok"
  THEN Outcome("NotFound", 0, <<>>, <<>>, <<"inventoryItemService.retrieve">>,
               it, lv, rs)
  ELSE IF locationIds = {}
  THEN Outcome("ok", 0, <<>>, <<>>, <<"inventoryItemService.retrieve">>,
               it, lv, rs)
  ELSE Outcome("ok", getAvailableQuantity(lv, inventoryItemId, locationIds), <<>>, <<>>,
               <<"inventoryItemService.retrieve",
                 "inventoryLevelService.getAvailableQuantity">>, it, lv, rs)

retrieveStockedQuantity(it, lv, rs, inventoryItemId, locationIds) ==
  IF InventoryItemService_retrieve(it, inventoryItemId) # "ok"
  THEN Outcome("NotFound", 0, <<>>, <<>>, <<"inventoryItemService.retrieve">>,
               it, lv, rs)
  ELSE IF locationIds = {}
  THEN Outcome("ok", 0, <<>>, <<>>, <<"inventoryItemService.retrieve">>,
               it, lv, rs)
  ELSE Outcome("ok", getStockedQuantity(lv, inventoryItemId, locationIds), <<>>, <<>>,
               <<"inventoryItemService.retrieve",
                 "inventoryLevelService.getStockedQuantity">>, it, lv, rs)

\* retrieveReservedQuantity asking the level store for the stocked sum.
retrieveReservedQuantity_Stocked(it, lv, rs, inventoryItemId, locationIds) ==
  retrieveStockedQuantity(it, lv, rs, inventoryItemId, locationIds)

retrieveReservedQuantity(it, lv, rs, inventoryItemId, locationIds) ==
  IF InventoryItemService_retrieve(it, inventoryItemId) # "ok"
  THEN Outcome("NotFound", 0, <<>>, <<>>, <<"inventoryItemService.retrieve">>,
               it, lv, rs)
  ELSE IF locationIds = {}
  THEN Outcome("ok", 0, <<>>, <<>>, <<"inventoryItemService.retrieve">>,
               it, lv, rs)
  ELSE Outcome("ok", getReservedQuantity(lv, inventoryItemId, locationIds), <<>>, <<>>,
               <<"inventoryItemService.retrieve",
                 "inventoryLevelService.getReservedQuantity">>, it, lv, rs)

\* confirmInventory comparing with > in place of >=.
confirmInventory_Strict(it, lv, rs, inventoryItemId, locationIds, quantity) ==
  LET a == retrieveAvailableQuantity(it, lv, rs, inventoryItemId, locationIds)
  IN IF a.status # "ok" THEN a ELSE [a EXCEPT !.ret = (a.ret > quantity)]

\* confirmInventory: the available quantity against the quantity asked for.
confirmInventory(it, lv, rs, inventoryItemId, locationIds, quantity) ==
  LET a == retrieveAvailableQuantity(it, lv, rs, inventoryItemId, locationIds)
  IN IF a.status # "ok" THEN a ELSE [a EXCEPT !.ret = (a.ret >= quantity)]

\* ----------------------------------------------------------------- actions
\* A Coordinator call run alone, from start to return (the reservation table
\* is let to grow to MaxReservations rows).
Return(op, input, r) ==
  /\ Cardinality(r.reservations) <= MaxReservations
  /\ items' = r.items
  /\ levels' = r.levels
  /\ reservations' = r.reservations
  /\ last' = Call(op, input, r.status, r.ret, r.missing, r.ensured, r.calls)
  /\ UNCHANGED <<pc, local>>

CreateReservationItems(input) ==
  /\ \E inventoryLevels \in ensureQuery(levels, input) :
       Return("createReservationItems", input,
              createReservationItems(items, levels, reservations, input,
                                     inventoryLevels))

CreateReservationItem(input) ==
  /\ \E inventoryLevels \in ensureQuery(levels, <<input>>) :
       Return("createReservationItem", input,
              createReservationItem(items, levels, reservations, input,
                                    inventoryLevels))

CreateInventoryItems(n) ==
  /\ Cardinality(items) + n <= Len(ItemIds)
  /\ Return("createInventoryItems", n,
            createInventoryItems(items, levels, reservations, n))

CreateInventoryLevels(input) ==
  Return("createInventoryLevels", input,
         createInventoryLevels(items, levels, reservations, input))

CreateInventoryLevel(input) ==
  Return("createInventoryLevel", input,
         createInventoryLevel(items, levels, reservations, input))

UpdateReservationItem(reservationItemId, input) ==
  Return("updateReservationItem", [id |-> reservationItemId, fields |-> input],
         updateReservationItem(items, levels, reservations, reservationItemId,
                               input))

AdjustInput(i, l, d) ==
  [inventory_item_id |-> i, location_id |-> l, adjustment |-> d]

AdjustInventory(i, l, d) ==
  LET found == adjustInventoryRead(levels, i, l)
  IN IF found = {}
     THEN Return("adjustInventory", AdjustInput(i, l, d),
                 adjustInventory(items, levels, reservations, i, l, d, <<>>))
     ELSE \E inventoryLevel \in found :
            /\ inventoryLevel.stocked_quantity + d \in (-MaxStock)..MaxStock
            /\ Return("adjustInventory", AdjustInput(i, l, d),
                      adjustInventory(items, levels, reservations, i, l, d,
                                      inventoryLevel))

QueryInput(i, ls) == [inventory_item_id |-> i, location_ids |-> ls]

RetrieveAvailableQuantity(i, ls) ==
  Return("retrieveAvailableQuantity", QueryInput(i, ls),
         retrieveAvailableQuantity(items, levels, reservations, i, ls))

RetrieveStockedQuantity(i, ls) ==
  Return("retrieveStockedQuantity", QueryInput(i, ls),
         retrieveStockedQuantity(items, levels, reservations, i, ls))

RetrieveReservedQuantity(i, ls) ==
  Return("retrieveReservedQuantity", QueryInput(i, ls),
         retrieveReservedQuantity(items, levels, reservations, i, ls))

DeleteInventoryItem(inventoryItemId, fault) ==
  Return("deleteInventoryItem", [ids |-> inventoryItemId, fault |-> fault],
         deleteInventoryItem(items, levels, reservations, inventoryItemId, fault))

DeleteInventoryItemLevelByLocationId(locationId) ==
  Return("deleteInventoryItemLevelByLocationId", locationId,
         deleteInventoryItemLevelByLocationId(items, levels, reservations,
                                              locationId))

DeleteReservationItemByLocationId(locationId) ==
  Return("deleteReservationItemByLocationId", locationId,
         deleteReservationItemByLocationId(items, levels, reservations,
                                           locationId))

\* What a list query with take: 1 can return of the rows that match.
TakeOne(rows) == IF rows = {} THEN {{}} ELSE {{r} : r \in rows}

DeleteInventoryLevel(i, l) ==
  \E found \in TakeOne(InventoryLevelService_list(levels, {i}, {l})) :
    Return("deleteInventoryLevel", Pair(i, l),
           deleteInventoryLevel(items, levels, reservations, i, l, found))

DeleteReservationItemsByLineItem(lineItemId) ==
  Return("deleteReservationItemsByLineItem", lineItemId,
         deleteReservationItemsByLineItem(items, levels, reservations, lineItemId))

DeleteReservationItem(reservationItemId) ==
  Return("deleteReservationItem", reservationItemId,
         deleteReservationItem(items, levels, reservations, reservationItemId))

UpdateInventoryLevels(updates, fault) ==
  \E inventoryLevels \in ensureQuery(levels, updates) :
    Return("updateInventoryLevels", [updates |-> updates, fault |-> fault],
           updateInventoryLevels(items, levels, reservations, updates,
                                 inventoryLevels, fault))

CreateInventoryItem ==
  /\ Cardinality(items) + 1 <= Len(ItemIds)
  /\ Return("createInventoryItem", 1,
            createInventoryItem(items, levels, reservations))

UpdateInventoryLevel(i, l, input, fault) ==
  \E inventoryLevels \in ensureQuery(levels, <<Pair(i, l)>>) :
    Return("updateInventoryLevel",
           [inventory_item_id |-> i, location_id |-> l, input |-> input,
            fault |-> fault],
           updateInventoryLevel(items, levels, reservations, i, l, input,
                                inventoryLevels, fault))

\* ------------------------------------------------------------------ inputs
\* Level specs: one stocked quantity.
LevelInputs(its, locs) ==
  [inventory_item_id : its, location_id : locs, stocked_quantity : {1}]

ReservationInputs(its, locs, qs) ==
  [inventory_item_id : its, location_id : locs, quantity : qs,
   line_item_id : {"LI1"}]

ReservationUpdates ==
  [location_id : Locations] \cup [quantity : Quantities]
    \cup [location_id : Locations, quantity : Quantities]

\* The ids of the reservation rows, and one that no row has.
ReservationIds == {r.id : r \in reservations} \cup {<<"I1", "L1", 0>>}

\* ----------------------------------------------------------- specification
Init ==
  /\ items = {}
  /\ levels = {}
  /\ reservations = {}
  /\ last = NoCall
  /\ pc = [p \in Procs |-> "idle"]
  /\ local = [p \in Procs |-> <<>>]

\* Levels of one item and the reservations held against them.
Next ==
  \/ \E input \in Batches(LevelInputs({"I1"}, Locations)) :
       CreateInventoryLevels(input)
  \/ \E input \in Batches(ReservationInputs({"I1"}, Locations, {1})) :
       CreateReservationItems(input)
  \/ \E input \in ReservationInputs({"I1"}, Locations, Quantities) :
       CreateReservationItem(input)
  \/ \E id \in ReservationIds, input \in ReservationUpdates :
       UpdateReservationItem(id, input)

Spec == Init /\ [][Next]_vars

\* Existence validation over two items and two locations: one batch call on
\* a level table that createInventoryLevels has filled for any set of pairs.
LevelRows(S) ==
  {[id |-> <<p.inventory_item_id, p.location_id, 1>>,
    inventory_item_id |-> p.inventory_item_id,
    location_id |-> p.location_id,
    stocked_quantity |-> 1,
    reserved_quantity |-> 0] : p \in S}

InitEnsure ==
  /\ items = {}
  /\ levels \in {LevelRows(S) : S \in SUBSET Pairs}
  /\ reservations = {}
  /\ last = NoCall
  /\ pc = [p \in Procs |-> "idle"]
  /\ local = [p \in Procs |-> <<>>]

NextEnsure ==
  /\ last.op = "none"
  /\ \E input \in Batches(ReservationInputs(Items, Locations, {1})) :
       CreateReservationItems(input)

SpecEnsure == InitEnsure /\ [][NextEnsure]_vars

\* Items, levels, adjustments and the quantity queries.
NextStock ==
  \/ \E n \in 1..MaxBatch : CreateInventoryItems(n)
  \/ \E input \in LevelInputs({"I1"}, Locations) \cup LevelInputs({"I2"}, {"L1"}) :
       CreateInventoryLevel(input)
  \/ \E i \in Items, l \in Locations, d \in Deltas : AdjustInventory(i, l, d)
  \/ \E i \in Items, ls \in SUBSET Locations : RetrieveAvailableQuantity(i, ls)
  \/ \E i \in Items, ls \in SUBSET Locations : RetrieveStockedQuantity(i, ls)
  \/ \E i \in Items, ls \in SUBSET Locations : RetrieveReservedQuantity(i, ls)

SpecStock == Init /\ [][NextStock]_vars

\* Items, levels, adjustments, reservations of one item, the quantity queries
\* and confirmInventory.
ConfirmInventory(i, ls, q) ==
  Return("confirmInventory",
         [inventory_item_id |-> i, location_ids |-> ls, quantity |-> q],
         confirmInventory(items, levels, reservations, i, ls, q))

NextLedger ==
  \/ CreateInventoryItems(1)
  \/ \E input \in LevelInputs({"I1"}, Locations) : CreateInventoryLevel(input)
  \/ \E d \in Deltas : AdjustInventory("I1", "L1", d)
  \/ \E input \in ReservationInputs({"I1"}, Locations, Quantities) :
       CreateReservationItem(input)
  \/ \E i \in Items, ls \in SUBSET Locations : RetrieveAvailableQuantity(i, ls)
  \/ \E i \in Items, ls \in SUBSET Locations : RetrieveStockedQuantity(i, ls)
  \/ \E i \in Items, ls \in SUBSET Locations : RetrieveReservedQuantity(i, ls)
  \/ \E i \in Items, ls \in SUBSET Locations, q \in Quantities :
       ConfirmInventory(i, ls, q)

SpecLedger == Init /\ [][NextLedger]_vars

\* Items, their levels and reservations, and the deletes of items, of levels
\* and by location.
NonEmpty(S) == SUBSET S \ {{}}

NextCascade ==
  \/ \E n \in 1..MaxBatch : CreateInventoryItems(n)
  \/ \E input \in LevelInputs({"I1"}, Locations) \cup LevelInputs({"I2"}, {"L1"}) :
       CreateInventoryLevel(input)
  \/ \E input \in ReservationInputs({"I1"}, Locations, {1}) :
       CreateReservationItem(input)
  \/ \E ids \in NonEmpty(Items), fault \in 0..2 : DeleteInventoryItem(ids, fault)
  \/ \E ls \in NonEmpty(Locations) : DeleteInventoryItemLevelByLocationId(ls)
  \/ \E ls \in NonEmpty(Locations) : DeleteReservationItemByLocationId(ls)
  \/ \E i \in Items, l \in Locations : DeleteInventoryLevel(i, l)

SpecCascade == Init /\ [][NextCascade]_vars

\* Reservations of two line items on the levels of one item, and the deletes
\* of reservations.
LineItemInputs ==
  [inventory_item_id : {"I1"}, location_id : Locations, quantity : Quantities,
   line_item_id : LineItems]

NextRelease ==
  \/ CreateInventoryItems(1)
  \/ \E input \in LevelInputs({"I1"}, Locations) : CreateInventoryLevel(input)
  \/ \E input \in LineItemInputs : CreateReservationItem(input)
  \/ \E ids \in NonEmpty(LineItems) : DeleteReservationItemsByLineItem(ids)
  \/ \E id \in ReservationIds : DeleteReservationItem({id})

SpecRelease == Init /\ [][NextRelease]_vars

\* Items and levels, the bulk update of levels and the delete of items, with
\* store calls that fail.
LevelUpdates ==
  {[inventory_item_id |-> "I1", location_id |-> "L1", stocked_quantity |-> 0],
   [inventory_item_id |-> "I1", location_id |-> "L2", stocked_quantity |-> 2]}

NextUpdate ==
  \/ CreateInventoryItems(1)
  \/ \E input \in LevelInputs({"I1"}, Locations) \cup LevelInputs({"I2"}, {"L1"}) :
       CreateInventoryLevel(input)
  \/ \E updates \in Batches(LevelUpdates) : \E fault \in 0..Len(updates) :
       UpdateInventoryLevels(updates, fault)
  \/ \E ids \in NonEmpty(Items), fault \in 0..2 : DeleteInventoryItem(ids, fault)

SpecUpdate == Init /\ [][NextUpdate]_vars

\* The single forms and their batch forms, on one item.
NextSingle ==
  \/ CreateInventoryItem
  \/ CreateInventoryItems(1)
  \/ \E input \in LevelInputs({"I1"}, Locations) : CreateInventoryLevel(input)
  \/ \E input \in LevelInputs({"I1"}, Locations) : CreateInventoryLevels(<<input>>)
  \/ \E input \in ReservationInputs({"I1"}, Locations, {1}) :
       CreateReservationItem(input)
  \/ \E input \in ReservationInputs({"I1"}, Locations, {1}) :
       CreateReservationItems(<<input>>)
  \/ \E u \in LevelUpdates, fault \in 0..1 :
       UpdateInventoryLevel(u.inventory_item_id, u.location_id,
                            [stocked_quantity |-> u.stocked_quantity], fault)
  \/ \E u \in LevelUpdates, fault \in 0..1 : UpdateInventoryLevels(<<u>>, fault)

SpecSingle == Init /\ [][NextSingle]_vars

\* One updateInventoryLevels batch over two items and two locations, from
\* each level table createInventoryLevels can fill.
FrameUpdates ==
  [inventory_item_id : Items, location_id : Locations, stocked_quantity : {2}]

NextFrame ==
  /\ last.op = "none"
  /\ \E updates \in Batches(FrameUpdates) : UpdateInventoryLevels(updates, 0)

SpecFrame == InitEnsure /\ [][NextFrame]_vars

\* ------------------------------------------------- concurrent requests
\* Requests run at once against one database. Each runs in its own
\* transaction at the default isolation: a store call reads what is
\* committed, nothing is locked by a read, and the request's one write is
\* committed as the request returns. A request is suspended at its store
\* calls only.

\* One item with a level at each location and one reservation: the tables
\* after createInventoryItems, createInventoryLevels, adjustInventory (+1 at
\* L1) and createReservationItem.
ConcurrentLevels ==
  {[id |-> <<"I1", "L1", 1>>, inventory_item_id |-> "I1", location_id |-> "L1",
    stocked_quantity |-> 2, reserved_quantity |-> 1],
   [id |-> <<"I1", "L2", 1>>, inventory_item_id |-> "I1", location_id |-> "L2",
    stocked_quantity |-> 1, reserved_quantity |-> 0]}

InitConcurrent ==
  /\ items = {"I1"}
  /\ levels = ConcurrentLevels
  /\ reservations = {[id |-> <<"I1", "L1", 1>>, inventory_item_id |-> "I1",
                      location_id |-> "L1", quantity |-> 1,
                      line_item_id |-> "LI1"]}
  /\ last = NoCall
  /\ pc = [p \in Procs |-> "idle"]
  /\ local = [p \in Procs |-> <<>>]

\* adjustInventory from its call to the return of its list query: not found
\* (the call throws), or the row to update.
AdjustCall(p, i, l, d) ==
  /\ pc[p] = "idle"
  /\ LET found == adjustInventoryRead(levels, i, l)
     IN IF found = {}
        THEN /\ pc' = [pc EXCEPT ![p] = "done"]
             /\ local' = [local EXCEPT ![p] =
                            [inventory_item_id |-> i, location_id |-> l,
                             adjustment |-> d, inventoryLevel |-> <<>>,
                             status |-> "NotFound"]]
        ELSE \E inventoryLevel \in found :
               /\ pc' = [pc EXCEPT ![p] = "update"]
               /\ local' = [local EXCEPT ![p] =
                              [inventory_item_id |-> i, location_id |-> l,
                               adjustment |-> d, inventoryLevel |-> inventoryLevel,
                               status |-> "pending"]]
  /\ UNCHANGED <<items, levels, reservations, last>>

\* adjustInventory from its update call to its return.
AdjustUpdate(p) ==
  /\ pc[p] = "update"
  /\ LET u == adjustInventoryWrite(levels, local[p].inventoryLevel,
                                   local[p].adjustment)
     IN /\ levels' = u.levels
        /\ local' = [local EXCEPT ![p].status = u.status]
  /\ pc' = [pc EXCEPT ![p] = "done"]
  /\ UNCHANGED <<items, reservations, last>>

NextAdjust ==
  \/ \E p \in Procs, i \in Items, l \in Locations, d \in Deltas :
       AdjustCall(p, i, l, d)
  \/ \E p \in Procs : AdjustUpdate(p)

SpecAdjust == InitConcurrent /\ [][NextAdjust]_vars

\* confirmInventory(i, [l], q), whole: its reads change nothing.
ConfirmCall(p, i, l, q) ==
  /\ pc[p] = "idle"
  /\ LET c == confirmInventory(items, levels, reservations, i, {l}, q)
     IN local' = [local EXCEPT ![p] =
                    [inventory_item_id |-> i, location_id |-> l, quantity |-> q,
                     confirmed |-> (c.status = "ok" /\ c.ret),
                     status |-> c.status]]
  /\ pc' = [pc EXCEPT ![p] = "confirmed"]
  /\ UNCHANGED <<items, levels, reservations, last>>

\* createReservationItem for the quantity confirmed, whole.
ReserveCall(p) ==
  /\ pc[p] = "confirmed"
  /\ local[p].confirmed
  /\ LET input == [inventory_item_id |-> local[p].inventory_item_id,
                   location_id |-> local[p].location_id,
                   quantity |-> local[p].quantity,
                   line_item_id |-> "LI2"]
     IN \E inventoryLevels \in ensureQuery(levels, <<input>>) :
          LET r == createReservationItem(items, levels, reservations, input,
                                         inventoryLevels)
          IN /\ levels' = r.levels
             /\ reservations' = r.reservations
             /\ local' = [local EXCEPT ![p].status = r.status]
  /\ pc' = [pc EXCEPT ![p] = "done"]
  /\ UNCHANGED <<items, last>>

\* The quantity was not confirmed: the caller reserves nothing.
SkipReserve(p) ==
  /\ pc[p] = "confirmed"
  /\ ~local[p].confirmed
  /\ pc' = [pc EXCEPT ![p] = "done"]
  /\ UNCHANGED <<items, levels, reservations, last, local>>

NextReserve ==
  \/ \E p \in Procs, i \in Items, l \in Locations, q \in Quantities :
       ConfirmCall(p, i, l, q)
  \/ \E p \in Procs : ReserveCall(p)
  \/ \E p \in Procs : SkipReserve(p)

SpecReserve == InitConcurrent /\ [][NextReserve]_vars

\* -------------------------------------------------------------- properties
\* d names a pair that has a level row in lv.
Stocked(lv, d) == \E r \in lv : PairOf(r) = PairOf(d)

\* The pairs of data, in order, that have no level row in lv.
UnstockedPairs(lv, data) ==
  LET un == SelectSeq(data, LAMBDA d : ~Stocked(lv, d))
  IN [k \in DOMAIN un |-> PairOf(un[k])]

\* C1: createReservationItems is all-or-nothing: a batch with at least one
\* pair that has no level row fails with NotFound and leaves the reservation
\* rows (and the levels and items) exactly as they were, the stocked pairs of
\* the batch included.
C1_AllOrNothing ==
  [][(/\ last'.op = "createReservationItems"
      /\ \E k \in DOMAIN last'.input : ~Stocked(levels, last'.input[k]))
     => (/\ last'.status = "NotFound"
         /\ reservations' = reservations
         /\ levels' = levels
         /\ items' = items)]_vars

\* A batch of one stocked and one unstocked pair was refused, with
\* reservations already in the table.
C1_Witness ==
  /\ last.op = "createReservationItems"
  /\ last.status = "NotFound"
  /\ \E j, k \in DOMAIN last.input :
       Stocked(levels, last.input[j]) /\ ~Stocked(levels, last.input[k])
  /\ reservations # {}

\* C4: when existence validation fails, its one NotFound error lists exactly
\* the requested pairs that have no level row, each as often and in the order
\* it was requested, and it fails exactly when there is such a pair.
C4_ExactMissing ==
  [][last'.op = "createReservationItems"
     => (/\ (last'.status = "NotFound")
              = (UnstockedPairs(levels, last'.input) # <<>>)
         /\ last'.missing = UnstockedPairs(levels, last'.input))]_vars

\* A requested pair (i, l) was reported missing while level rows exist for i
\* at another requested location and for another requested item at l; and
\* no stocked pair was reported.
C4_Witness ==
  /\ last.op = "createReservationItems"
  /\ last.status = "NotFound"
  /\ \E k \in DOMAIN last.missing :
       LET p == last.missing[k]
       IN \E a, b \in DOMAIN last.input :
            /\ last.input[a].location_id # p.location_id
            /\ last.input[b].inventory_item_id # p.inventory_item_id
            /\ Stocked(levels, Pair(p.inventory_item_id, last.input[a].location_id))
            /\ Stocked(levels, Pair(last.input[b].inventory_item_id, p.location_id))

\* C5: on success ensureInventoryLevels returns one row per input pair, the
\* row at position k being the level of the k-th requested pair.
C5_InputOrder ==
  (last.op = "createReservationItems" /\ last.status = "ok")
    => (/\ Len(last.ensured) = Len(last.input)
        /\ \A k \in DOMAIN last.input :
             PairOf(last.ensured[k]) = PairOf(last.input[k]))

InitialStocked(i, l) ==
  (CHOOSE r \in ConcurrentLevels : PairOf(r) = Pair(i, l)).stocked_quantity

\* The sum of the adjustments of the requests in P that completed on (i, l).
RECURSIVE SumAdjustments(_, _, _)
SumAdjustments(P, i, l) ==
  IF P = {} THEN 0
  ELSE LET p == CHOOSE q \in P : TRUE
       IN (IF /\ local[p].status = "ok"
              /\ local[p].inventory_item_id = i
              /\ local[p].location_id = l
           THEN local[p].adjustment ELSE 0)
          + SumAdjustments(P \ {p}, i, l)

\* C2: once all concurrent adjustInventory calls have completed, each level
\* holds its initial stocked quantity plus the sum of the adjustments made
\* on it, whatever the interleaving of the calls' list and update steps.
C2_NoLostUpdate ==
  (\A p \in Procs : pc[p] = "done")
    => \A r \in levels :
         r.stocked_quantity
           = InitialStocked(r.inventory_item_id, r.location_id)
             + SumAdjustments(Procs, r.inventory_item_id, r.location_id)

\* C3: when every reservation is created only after confirmInventory
\* returned true for its quantity, no level's available quantity
\* (stocked - reserved) is ever negative.
C3_NoOverReserve ==
  \A r \in levels : r.stocked_quantity - r.reserved_quantity >= 0

\* The pair a reservation call points the reservation at, as a set: the
\* pairs of the batch for a create; for an update of an existing reservation
\* the pair of the row with the location of the update, if it has one.
TargetPairs(call, rs) ==
  CASE call.op = "createReservationItems"
         -> {PairOf(call.input[k]) : k \in DOMAIN call.input}
    [] call.op = "createReservationItem" -> {PairOf(call.input)}
    [] call.op = "updateReservationItem"
         -> {Pair(r.inventory_item_id,
                  IF "location_id" \in DOMAIN call.input.fields
                  THEN call.input.fields.location_id ELSE r.location_id) :
               r \in {x \in rs : x.id = call.input.id}}
    [] OTHER -> {}

\* C7: a call that creates a reservation at, or updates one to, a pair with
\* no level row fails with NotFound and writes nothing.
C7_ExistenceEnforced ==
  [][(\E t \in TargetPairs(last', reservations) : ~Stocked(levels, t))
     => (/\ last'.status = "NotFound"
         /\ reservations' = reservations
         /\ levels' = levels
         /\ items' = items)]_vars

\* C8: adjustInventory changes nothing up to the return of its list query,
\* fails with NotFound exactly when that query finds no level row for the
\* pair, and otherwise writes the stocked quantity it read plus the
\* adjustment, with no floor, on the row it read, leaving that row's other
\* fields, every other level, the items and the reservations as they were.
C8_AdjustFrame ==
  [][\A p \in Procs :
       /\ (pc[p] = "idle" /\ pc'[p] # "idle")
            => /\ UNCHANGED <<items, levels, reservations>>
               /\ IF Stocked(levels, local'[p])
                  THEN /\ pc'[p] = "update"
                       /\ local'[p].inventoryLevel \in levels
                       /\ PairOf(local'[p].inventoryLevel) = PairOf(local'[p])
                  ELSE /\ pc'[p] = "done"
                       /\ local'[p].status = "NotFound"
       /\ (pc[p] = "update" /\ pc'[p] # "update")
            => /\ pc'[p] = "done"
               /\ local'[p].status = "ok"
               /\ levels' =
                    {IF r.id = local[p].inventoryLevel.id
                     THEN [r EXCEPT !.stocked_quantity =
                             local[p].inventoryLevel.stocked_quantity
                               + local[p].adjustment]
                     ELSE r : r \in levels}
               /\ UNCHANGED <<items, reservations>>]_vars

\* Two adjustments of -1 ran one after the other on the level stocked with
\* 1: it now holds -1, the other level and the reservation are as before.
C8_Witness ==
  /\ \A p \in Procs :
       /\ pc[p] = "done"
       /\ local[p].status = "ok"
       /\ local[p].location_id = "L2"
       /\ local[p].adjustment = -1
  /\ \E r \in levels : r.location_id = "L2" /\ r.stocked_quantity = -1
  /\ reservations # {}

\* The call was one of the three quantity queries.
IsQuantityQuery(call) ==
  call.op \in {"retrieveAvailableQuantity", "retrieveStockedQuantity",
               "retrieveReservedQuantity"}

\* C9 as stated: a quantity query for an existing item and no locations
\* returns 0 and makes no store call at all.
C9_NoStoreCalls ==
  (/\ IsQuantityQuery(last)
   /\ last.input.inventory_item_id \in items
   /\ last.input.location_ids = {})
    => (last.status = "ok" /\ last.ret = 0 /\ last.calls = <<>>)

\* C9: a quantity query for an existing item and no locations returns 0
\* after exactly one store call, the item lookup: it makes no query to the
\* level store or the reservation store.
C9_OnlyItemLookup ==
  (/\ IsQuantityQuery(last)
   /\ last.input.inventory_item_id \in items
   /\ last.input.location_ids = {})
    => (/\ last.status = "ok"
        /\ last.ret = 0
        /\ last.calls = <<"inventoryItemService.retrieve">>)

\* retrieveAvailableQuantity(I1, []) was called for an existing item that
\* has a level with stock.
C9_Witness ==
  /\ last.op = "retrieveAvailableQuantity"
  /\ last.input.inventory_item_id \in items
  /\ last.input.location_ids = {}
  /\ \E r \in levels :
       /\ r.inventory_item_id = last.input.inventory_item_id
       /\ r.stocked_quantity > 0

\* C10: a quantity query for an item that does not exist fails with
\* NotFound, and the item lookup is the only store call it makes: no level
\* query is issued.
C10_NotFoundBeforeLevelQuery ==
  (IsQuantityQuery(last) /\ last.input.inventory_item_id \notin items)
    => (/\ last.status = "NotFound"
        /\ last.calls = <<"inventoryItemService.retrieve">>)

\* retrieveAvailableQuantity was called for an item that does not exist
\* with a location that has a level, while another item exists.
C10_Witness ==
  /\ last.op = "retrieveAvailableQuantity"
  /\ last.input.inventory_item_id \notin items
  /\ items # {}
  /\ \E r \in levels : r.location_id \in last.input.location_ids

\* The stocked and the reserved quantity item i has at location l: those of
\* its level row there, zero when there is none.
StockedAt(lv, i, l) ==
  IF \E r \in lv : PairOf(r) = Pair(i, l)
  THEN (CHOOSE r \in lv : PairOf(r) = Pair(i, l)).stocked_quantity ELSE 0

ReservedAt(lv, i, l) ==
  IF \E r \in lv : PairOf(r) = Pair(i, l)
  THEN (CHOOSE r \in lv : PairOf(r) = Pair(i, l)).reserved_quantity ELSE 0

RECURSIVE StockedOver(_, _, _)
StockedOver(lv, i, ls) ==
  IF ls = {} THEN 0
  ELSE LET l == CHOOSE x \in ls : TRUE
       IN StockedAt(lv, i, l) + StockedOver(lv, i, ls \ {l})

RECURSIVE ReservedOver(_, _, _)
ReservedOver(lv, i, ls) ==
  IF ls = {} THEN 0
  ELSE LET l == CHOOSE x \in ls : TRUE
       IN ReservedAt(lv, i, l) + ReservedOver(lv, i, ls \ {l})

\* C11: in every state, for every existing item i and every set ls of
\* locations, retrieveStockedQuantity(i, ls) is the sum of stocked_quantity
\* over the level rows of i at the locations of ls, retrieveReservedQuantity
\* the sum of their reserved_quantity, and retrieveAvailableQuantity the
\* first minus the second; and a query that was made returned that value.
C11_Aggregation ==
  /\ \A i \in items, ls \in SUBSET Locations :
       LET stocked == retrieveStockedQuantity(items, levels, reservations, i, ls)
           reserved == retrieveReservedQuantity(items, levels, reservations, i, ls)
           available == retrieveAvailableQuantity(items, levels, reservations, i, ls)
       IN /\ stocked.status = "ok" /\ reserved.status = "ok"
          /\ available.status = "ok"
          /\ stocked.ret = StockedOver(levels, i, ls)
          /\ reserved.ret = ReservedOver(levels, i, ls)
          /\ available.ret = stocked.ret - reserved.ret
  /\ (IsQuantityQuery(last) /\ last.status = "ok")
       => last.ret =
            LET i == last.input.inventory_item_id
                ls == last.input.location_ids
            IN CASE last.op = "retrieveStockedQuantity"
                      -> StockedOver(levels, i, ls)
                 [] last.op = "retrieveReservedQuantity"
                      -> ReservedOver(levels, i, ls)
                 [] OTHER -> StockedOver(levels, i, ls) - ReservedOver(levels, i, ls)

\* retrieveReservedQuantity was called over both locations, one of them with
\* no level row for the item, the other with a level whose stocked and
\* reserved quantities differ and are not zero.
C11_Witness ==
  /\ last.op = "retrieveReservedQuantity"
  /\ last.status = "ok"
  /\ last.input.location_ids = Locations
  /\ \E l \in Locations : ~Stocked(levels, Pair(last.input.inventory_item_id, l))
  /\ \E r \in levels :
       /\ r.inventory_item_id = last.input.inventory_item_id
       /\ r.reserved_quantity > 0
       /\ r.stocked_quantity # 0
       /\ r.stocked_quantity # r.reserved_quantity

\* C12: confirmInventory(i, ls, q) for an existing item returns true exactly
\* when the available quantity of i over ls is at least q, and whatever it
\* returns it leaves the items, the levels and the reservations as they were.
C12_ConfirmAdvisory ==
  [][last'.op = "confirmInventory"
     => /\ UNCHANGED <<items, levels, reservations>>
        /\ last'.input.inventory_item_id \in items
             => /\ last'.status = "ok"
                /\ last'.ret
                     = (StockedOver(levels, last'.input.inventory_item_id,
                                    last'.input.location_ids)
                        - ReservedOver(levels, last'.input.inventory_item_id,
                                       last'.input.location_ids)
                          >= last'.input.quantity)]_vars

\* confirmInventory returned true for a quantity equal to what is available
\* at a level that holds a reservation.
C12_Witness ==
  /\ last.op = "confirmInventory"
  /\ last.status = "ok"
  /\ last.ret = TRUE
  /\ reservations # {}
  /\ \E r \in levels :
       /\ r.inventory_item_id = last.input.inventory_item_id
       /\ last.input.location_ids = {r.location_id}
       /\ r.reserved_quantity > 0
       /\ r.stocked_quantity - r.reserved_quantity = last.input.quantity

\* C13: a deleteInventoryItem(S) that succeeds leaves no item row and no
\* level row of an item of S, leaves the level rows of the other items (and
\* the other item rows) as they were, and issues the delete of the levels
\* before the delete of the item rows.
C13_ItemCascade ==
  [][(last'.op = "deleteInventoryItem" /\ last'.status = "ok")
     => /\ items' = items \ last'.input.ids
        /\ levels' = {r \in levels : r.inventory_item_id \notin last'.input.ids}
        /\ \A r \in levels' : r.inventory_item_id \notin last'.input.ids
        /\ last'.calls = <<"inventoryLevelService.deleteByInventoryItemId",
                           "inventoryItemService.delete">>]_vars

\* deleteInventoryItem(I1) succeeded; I1 had a level (a reservation made on
\* it is still in the table), and the other item and its level are there.
C13_Witness ==
  /\ last.op = "deleteInventoryItem"
  /\ last.status = "ok"
  /\ last.input.ids = {"I1"}
  /\ \E r \in reservations : r.inventory_item_id = "I1"
  /\ "I2" \in items
  /\ \E r \in levels : r.inventory_item_id = "I2"

\* The rows of a table that are at none of the locations ls.
Elsewhere(rows, ls) == {r \in rows : r.location_id \notin ls}

\* C14: deleteInventoryItemLevelByLocationId(ls) removes exactly the level
\* rows at the locations ls and changes no item and no reservation;
\* deleteReservationItemByLocationId(ls) removes exactly the reservation rows
\* at ls, changes no item, removes or adds no level and changes no level at
\* another location; and when one has run right after the other for the same
\* ls, no level and no reservation is left at ls.
C14_LocationCascade ==
  [][/\ last'.op = "deleteInventoryItemLevelByLocationId"
          => /\ last'.status = "ok"
             /\ levels' = Elsewhere(levels, last'.input)
             /\ UNCHANGED <<items, reservations>>
     /\ last'.op = "deleteReservationItemByLocationId"
          => /\ last'.status = "ok"
             /\ reservations' = Elsewhere(reservations, last'.input)
             /\ items' = items
             /\ {r.id : r \in levels'} = {r.id : r \in levels}
             /\ Elsewhere(levels', last'.input) = Elsewhere(levels, last'.input)
     /\ (/\ {last.op, last'.op} = {"deleteInventoryItemLevelByLocationId",
                                   "deleteReservationItemByLocationId"}
         /\ last.input = last'.input)
          => /\ Elsewhere(levels', last'.input) = levels'
             /\ Elsewhere(reservations', last'.input) = reservations']_vars

\* deleteInventoryItemLevelByLocationId(L1) ran on a table that had a level
\* at L1 (a reservation made on it is still there), with a level and a
\* reservation at L2.
C14_Witness ==
  /\ last.op = "deleteInventoryItemLevelByLocationId"
  /\ last.input = {"L1"}
  /\ \E r \in reservations : r.location_id = "L1"
  /\ \E r \in reservations : r.location_id = "L2"
  /\ \E r \in levels : r.location_id = "L2"

\* C15: deleteInventoryLevel(i, l) succeeds whether or not the pair has a
\* level row; it removes the row of that pair and nothing else, so for a
\* pair with no row, and so when called a second time, it changes nothing.
C15_DeleteLevelIdempotent ==
  [][last'.op = "deleteInventoryLevel"
     => /\ last'.status = "ok"
        /\ levels' = {r \in levels : PairOf(r) # last'.input}
        /\ UNCHANGED <<items, reservations>>
        /\ (\/ ~Stocked(levels, last'.input)
            \/ (last.op = last'.op /\ last.input = last'.input))
             => UNCHANGED <<items, levels, reservations>>]_vars

\* deleteInventoryLevel(I1, L1) ran for a pair that had a level (a
\* reservation made on it is still there); the item's other level and the
\* other item's level are in the table.
C15_Witness ==
  /\ last.op = "deleteInventoryLevel"
  /\ last.input = Pair("I1", "L1")
  /\ \E r \in reservations : PairOf(r) = Pair("I1", "L1")
  /\ Stocked(levels, Pair("I1", "L2"))
  /\ Stocked(levels, Pair("I2", "L1"))

\* C19: every reservation row references a pair that has a level row.
C19_ReferentialConsistency ==
  \A r \in reservations : Stocked(levels, r)

\* The sum of the quantities of a set of reservation rows.
RECURSIVE SumQuantities(_)
SumQuantities(rs) ==
  IF rs = {} THEN 0
  ELSE LET r == CHOOSE x \in rs : TRUE
       IN r.quantity + SumQuantities(rs \ {r})

\* C16: the reserved_quantity of every level row equals the sum of the
\* quantities of the reservation rows that reference its (item, location).
C16_ReservedInStep ==
  \A v \in levels :
    v.reserved_quantity
      = SumQuantities({r \in reservations : PairOf(r) = PairOf(v)})

\* The level rows without their reserved quantity.
Unreserved(lv) == {[r EXCEPT !.reserved_quantity = 0] : r \in lv}

\* C20: deleteReservationItemsByLineItem(ids) removes exactly the
\* reservation rows whose line item is in ids; it creates and deletes no
\* level row and no item row, and changes no stocked quantity.
C20_LineItemDelete ==
  [][last'.op = "deleteReservationItemsByLineItem"
     => /\ last'.status = "ok"
        /\ reservations' = {r \in reservations : r.line_item_id \notin last'.input}
        /\ Unreserved(levels') = Unreserved(levels)
        /\ items' = items]_vars

\* deleteReservationItemsByLineItem(LI1) ran with an item in the table; a
\* reservation of LI2 is left, made second at its pair (the first made there
\* is gone), and its level is in the table.
C20_Witness ==
  /\ last.op = "deleteReservationItemsByLineItem"
  /\ last.input = {"LI1"}
  /\ items # {}
  /\ \E r \in reservations :
       /\ r.line_item_id = "LI2"
       /\ r.id[3] = 2
       /\ \A x \in reservations : x.id[3] = 1 => PairOf(x) # PairOf(r)
       /\ Stocked(levels, r)

LevelIdAt(lv, d) == (CHOOSE r \in lv : PairOf(r) = PairOf(d)).id

\* The quantity the last update of the batch for the pair of row r asks for.
LastUpdateFor(updates, r) ==
  LET ks == {k \in DOMAIN updates : PairOf(updates[k]) = PairOf(r)}
  IN updates[CHOOSE k \in ks : \A j \in ks : j <= k].stocked_quantity

\* C18: updateInventoryLevels, when no store call fails: if an input pair
\* has no level row it fails with NotFound having issued no update, and no
\* level is modified; otherwise it issues one update per input, result k is
\* the level row of the pair of input k, under its id and with the quantity
\* of input k, and the levels of no other pair change.
C18_ValidateThenApply ==
  [][(last'.op = "updateInventoryLevels" /\ last'.input.fault = 0)
     => LET updates == last'.input.updates
        IN IF \E k \in DOMAIN updates : ~Stocked(levels, updates[k])
           THEN /\ last'.status = "NotFound"
                /\ last'.calls = <<"inventoryLevelService.list">>
                /\ UNCHANGED <<items, levels, reservations>>
           ELSE /\ last'.status = "ok"
                /\ last'.calls
                     = <<"inventoryLevelService.list">>
                         \o [k \in DOMAIN updates |-> "inventoryLevelService.update"]
                /\ DOMAIN last'.ret = DOMAIN updates
                /\ \A k \in DOMAIN updates :
                     /\ last'.ret[k].id = LevelIdAt(levels, updates[k])
                     /\ PairOf(last'.ret[k]) = PairOf(updates[k])
                     /\ last'.ret[k].stocked_quantity = updates[k].stocked_quantity
                /\ levels'
                     = {IF \E k \in DOMAIN updates : PairOf(updates[k]) = PairOf(r)
                        THEN [r EXCEPT !.stocked_quantity = LastUpdateFor(updates, r)]
                        ELSE r : r \in levels}
                /\ UNCHANGED <<items, reservations>>]_vars

\* updateInventoryLevels succeeded on a batch of two different pairs, given
\* in the order L2 then L1, while a level of another item is in the table.
C18_Witness ==
  /\ last.op = "updateInventoryLevels"
  /\ last.status = "ok"
  /\ Len(last.input.updates) = 2
  /\ last.input.updates[1].location_id = "L2"
  /\ last.input.updates[2].location_id = "L1"
  /\ \E r \in levels : r.inventory_item_id = "I2"

\* The step is what the batch call with outcome b comes to, with the one
\* result of the batch as its result.
SingleOf(b) ==
  /\ last'.status = b.status
  /\ last'.missing = b.missing
  /\ b.status = "ok" => last'.ret = b.ret[1]
  /\ items' = b.items
  /\ levels' = b.levels
  /\ reservations' = b.reservations

\* C21: createReservationItem(x), createInventoryItem(x),
\* createInventoryLevel(x) and updateInventoryLevel(i, l, u) end in the
\* state, with the result (the one element of the batch result) and with the
\* error of createReservationItems([x]), createInventoryItems([x]),
\* createInventoryLevels([x]) and updateInventoryLevels([{i, l, u}]).
C21_SingleIsBatch ==
  [][/\ last'.op = "createReservationItem"
          => \E inventoryLevels \in ensureQuery(levels, <<last'.input>>) :
               SingleOf(createReservationItems(items, levels, reservations,
                                               <<last'.input>>, inventoryLevels))
     /\ last'.op = "createInventoryLevel"
          => SingleOf(createInventoryLevels(items, levels, reservations,
                                            <<last'.input>>))
     /\ last'.op = "createInventoryItem"
          => LET b == createInventoryItems(items, levels, reservations, 1)
             IN /\ last'.status = b.status
                /\ b.ret = {last'.ret}
                /\ items' = b.items
                /\ UNCHANGED <<levels, reservations>>
     /\ last'.op = "updateInventoryLevel"
          => LET updates == <<[inventory_item_id |-> last'.input.inventory_item_id,
                               location_id |-> last'.input.location_id,
                               stocked_quantity |->
                                 last'.input.input.stocked_quantity]>>
             IN \E inventoryLevels \in ensureQuery(levels, updates) :
                  SingleOf(updateInventoryLevels(items, levels, reservations,
                                                 updates, inventoryLevels,
                                                 last'.input.fault))]_vars

\* createReservationItem failed with NotFound, naming its pair, while the
\* item has a level at the other location and a reservation on it.
C21_Witness ==
  /\ last.op = "createReservationItem"
  /\ last.status = "NotFound"
  /\ last.missing = <<PairOf(last.input)>>
  /\ levels # {}
  /\ reservations # {}

\* C22: createReservationItems succeeds whenever every pair of its batch has
\* a level row, whatever the quantities asked for and whatever is available:
\* it writes one reservation row per input, with the quantity of the input.
C22_NoAvailabilityCheck ==
  [][(/\ last'.op = "createReservationItems"
      /\ \A k \in DOMAIN last'.input : Stocked(levels, last'.input[k]))
     => /\ last'.status = "ok"
        /\ DOMAIN last'.ret = DOMAIN last'.input
        /\ \A k \in DOMAIN last'.input :
             /\ last'.ret[k] \in reservations' \ reservations
             /\ PairOf(last'.ret[k]) = PairOf(last'.input[k])
             /\ last'.ret[k].quantity = last'.input[k].quantity
        /\ Cardinality(reservations')
             = Cardinality(reservations) + Len(last'.input)]_vars

\* createReservationItems succeeded and the level of one of its inputs has
\* more reserved than stocked: its available quantity is negative.
C22_Witness ==
  /\ last.op = "createReservationItems"
  /\ last.status = "ok"
  /\ \E k \in DOMAIN last.input : \E v \in levels :
       /\ PairOf(v) = PairOf(last.input[k])
       /\ v.reserved_quantity > v.stocked_quantity

\* C23: a quantity query or a confirmInventory for an item that does not
\* exist, with no locations, fails with NotFound: it returns neither 0 nor a
\* boolean.
C23_ItemCheckFirst ==
  (/\ (IsQuantityQuery(last) \/ last.op = "confirmInventory")
   /\ last.input.inventory_item_id \notin items
   /\ last.input.location_ids = {})
    => last.status = "NotFound"

\* confirmInventory was called with no locations for an item that does not
\* exist, while another item and a level are in the tables.
C23_Witness ==
  /\ last.op = "confirmInventory"
  /\ last.input.inventory_item_id \notin items
  /\ last.input.location_ids = {}
  /\ items # {}
  /\ levels # {}

\* C24: updateInventoryLevels leaves every level row whose pair is not the
\* pair of one of its updates as it was, the rows its validation fetched for
\* other combinations of a requested item and a requested location included.
C24_UpdateFrame ==
  [][last'.op = "updateInventoryLevels"
     => \A r \in levels :
          (\A k \in DOMAIN last'.input.updates :
             PairOf(last'.input.updates[k]) # PairOf(r))
            => r \in levels']_vars

\* updateInventoryLevels succeeded on two pairs (i1, l1) and (i2, l2) of
\* different items and locations while (i1, l2), which is not in the batch,
\* has a level row with another quantity than the one the updates wrote.
C24_Witness ==
  /\ last.op = "updateInventoryLevels"
  /\ last.status = "ok"
  /\ \E j, k \in DOMAIN last.input.updates :
       LET a == last.input.updates[j]
           b == last.input.updates[k]
       IN /\ a.inventory_item_id # b.inventory_item_id
          /\ a.location_id # b.location_id
          /\ \A h \in DOMAIN last.input.updates :
               PairOf(last.input.updates[h])
                 # Pair(a.inventory_item_id, b.location_id)
          /\ \E r \in levels :
               /\ PairOf(r) = Pair(a.inventory_item_id, b.location_id)
               /\ r.stocked_quantity # a.stocked_quantity

====
